---- MODULE Spec2Model ----
(***************************************************************************)
(* Model of the ASE calculator adapter of s-dftd3 (python/dftd3/ase.py):   *)
(* the DFTD3 calculator object with its parameters, its cached native      *)
(* model handle _disp, the atoms it last calculated and its results.       *)
(*                                                                         *)
(* Python None is the string "None" where the other values are names, and  *)
(* the empty tuple where the other values are objects (atoms, handle).     *)
(* Dictionaries are functions from their keys.  Lengths are integers in    *)
(* 1/1000 Angstrom, the engine's lengths in 1/1000 bohr, energies of the   *)
(* engine in 1/1000 hartree.  A list of changes is modelled by the set of  *)
(* its entries (the framework's lists hold no entry twice).  previous is    *)
(* the atoms of the latest calculate call, which reset does not forget.    *)
(***************************************************************************)
EXTENDS Integers, Sequences, FiniteSets, TLC

VARIABLES parameters, atoms, results, _disp, last, previous

vars == <<parameters, atoms, results, _disp, last, previous>>

----------------------------------------------------------------------------
(* Values *)

None == "None"
NoAtoms == <<>>
NoHandle == <<>>
EmptyDict == [k \in {} |-> 0]

\* ase.units, in 1/1000 eV per hartree and 1/1000 Angstrom per bohr
Hartree == 27211
Bohr == 529

all_changes == {"positions", "numbers", "cell", "pbc", "initial_charges", "initial_magmoms"}

implemented_properties == {"energy", "forces", "stress"}

_damping_param ==
  [k \in {"d3bj", "d3zero", "d3bjm", "d3mbj", "d3zerom", "d3mzero", "d3op"} |->
     CASE k = "d3bj" -> "RationalDampingParam"
       [] k = "d3zero" -> "ZeroDampingParam"
       [] k = "d3bjm" -> "ModifiedRationalDampingParam"
       [] k = "d3mbj" -> "ModifiedRationalDampingParam"
       [] k = "d3zerom" -> "ModifiedZeroDampingParam"
       [] k = "d3mzero" -> "ModifiedZeroDampingParam"
       [] k = "d3op" -> "OptimizedPowerDampingParam"]

default_parameters ==
  [method |-> None, damping |-> None, params_tweaks |-> EmptyDict, cache_api |-> TRUE]

----------------------------------------------------------------------------
(* Inputs: the structures, change lists, parameter values and engine       *)
(* outcomes the operations are called with                                 *)

Molecule == [numbers |-> <<8, 1, 1>>, positions |-> 1000, cell |-> 0, pbc |-> <<FALSE, FALSE, FALSE>>]
MoleculeMoved == [numbers |-> <<8, 1, 1>>, positions |-> 2000, cell |-> 0, pbc |-> <<FALSE, FALSE, FALSE>>]
Dimer == [numbers |-> <<6, 8>>, positions |-> 1000, cell |-> 0, pbc |-> <<FALSE, FALSE, FALSE>>]
Crystal == [numbers |-> <<8, 1, 1>>, positions |-> 1000, cell |-> 3000, pbc |-> <<TRUE, TRUE, FALSE>>]

AtomsSet == {Molecule, MoleculeMoved, Dimer, Crystal}

ChangeSets ==
  { {}, {"positions"}, {"positions", "cell"}, {"initial_magmoms"}, all_changes }

Methods == {None, "pbe"}
Dampings == {None, "d3bj", "d4"}
Tweaks == { EmptyDict, [k \in {"s9"} |-> 0] }

\* the properties argument of calculate: missing (None), empty, or a list
NoList == <<>>
PropertyLists == {NoList, << <<>> >>, << <<"forces">> >>}

\* the steps of the engine that fail (raise RuntimeError) during one call
FailSets ==
  { {}, {"update"}, {"construct"}, {"update", "construct"}, {"dpar"},
    {"update", "dpar"}, {"eval"}, {"update", "eval"} }

----------------------------------------------------------------------------
(* The native engine (dftd3.interface)                                     *)

DispersionModel(id, numbers, positions, cell, periodic) ==
  [id |-> id, numbers |-> numbers, positions |-> positions, cell |-> cell,
   periodic |-> periodic]

update(h, positions, cell) ==
  [h EXCEPT !.positions = positions, !.cell = cell]

DampingParam(family, kwargs) == [family |-> family, kwargs |-> kwargs]

\* an energy, a gradient when asked for, and a 3x3 virial in row-major order
get_dispersion(h, param, grad) ==
  [energy |-> -Len(h.numbers),
   gradient |-> IF grad THEN Len(h.numbers) ELSE 0,
   virial |-> [i \in 1..9 |-> 100 * i]]

----------------------------------------------------------------------------
(* Unit conversion and ASE helpers                                         *)

DivBohr(x) == (x * 1000) \div Bohr

any(pbc) == \E i \in DOMAIN pbc : pbc[i]

\* the cell is cubic with an edge of whole Angstrom: the volume in Angstrom^3
get_volume(a) == LET edge == a.cell \div 1000 IN edge * edge * edge

\* The identity of a handle object, as the calls of one calculate see it:
\* CachedId is the handle that was cached when the call began, NewId a model
\* the call constructs, NoId no handle.  Between calls the cached handle is
\* the only handle alive, so its identity is CachedId again when the next
\* call begins.
CachedId == "cached"
NewId == "new"
NoId == "none"

IdOf(d) == IF d = NoHandle THEN NoId ELSE d[1].id

Cached(d) == IF d = NoHandle THEN NoHandle ELSE <<[d[1] EXCEPT !.id = CachedId]>>

Event(ev, ok, id, args) == [ev |-> ev, ok |-> ok, id |-> id, args |-> args]

----------------------------------------------------------------------------
(* The calculator's methods.  Each takes the fields of the calculator it   *)
(* reads and returns the fields it writes; err is the exception the method *)
(* raises ("None" when it returns normally) and log the calls it made to   *)
(* the engine, in order.  fails names the engine calls that raise          *)
(* RuntimeError.  calculate is called with an Atoms object, as the         *)
(* framework calls it; its properties argument is replaced by ["energy"]   *)
(* when empty and is read by nothing after that.                           *)

\* Calculator.set of the framework: store the values that differ
ChangedParameters(p, kwargs) ==
  [k \in {x \in DOMAIN kwargs : kwargs[x] # p[x]} |-> kwargs[k]]

\* reset that keeps the handle whatever cache_api is
reset_KeepsHandle(p, d) ==
  [atoms |-> NoAtoms, results |-> EmptyDict, disp |-> d]

reset(p, d) ==
  [atoms |-> NoAtoms,
   results |-> EmptyDict,
   disp |-> IF ~p.cache_api THEN NoHandle ELSE d]

\* a set whose reset reads the parameters as they were before the update
set_ResetsWithOld(p, d, at, res, kwargs) ==
  LET changed_parameters == ChangedParameters(p, kwargs)
      np == [k \in DOMAIN p |-> IF k \in DOMAIN changed_parameters
                                 THEN changed_parameters[k] ELSE p[k]]
      r == reset(p, d)
  IN IF DOMAIN changed_parameters # {}
     THEN [parameters |-> np, atoms |-> r.atoms, results |-> r.results,
           disp |-> r.disp, changed |-> DOMAIN changed_parameters]
     ELSE [parameters |-> np, atoms |-> at, results |-> res,
           disp |-> d, changed |-> {}]

\* a set that stores the new values and resets nothing
set_NoReset(p, d, at, res, kwargs) ==
  LET changed_parameters == ChangedParameters(p, kwargs)
  IN [parameters |-> [k \in DOMAIN p |-> IF k \in DOMAIN changed_parameters
                                          THEN changed_parameters[k] ELSE p[k]],
      atoms |-> at, results |-> res, disp |-> d,
      changed |-> DOMAIN changed_parameters]

set(p, d, at, res, kwargs) ==
  LET changed_parameters == ChangedParameters(p, kwargs)
      np == [k \in DOMAIN p |-> IF k \in DOMAIN changed_parameters
                                 THEN changed_parameters[k] ELSE p[k]]
      r == reset(np, d)
  IN IF DOMAIN changed_parameters # {}
     THEN [parameters |-> np, atoms |-> r.atoms, results |-> r.results,
           disp |-> r.disp, changed |-> DOMAIN changed_parameters]
     ELSE [parameters |-> np, atoms |-> at, results |-> res,
           disp |-> d, changed |-> {}]

\* the in-place update of the cached handle d (lines 213-222); onfail is
\* what a failed update leaves: the exception raised and the handle kept
UpdateInPlace(d, a, fails, onfail) ==
  LET positions == DivBohr(a.positions)
      _cell == DivBohr(a.cell)
      ok == "update" \notin fails
      e == Event("update", ok, d[1].id, [positions |-> positions, cell |-> _cell])
  IN IF ok
     THEN [err |-> "None", disp |-> <<update(d[1], positions, _cell)>>, log |-> <<e>>]
     ELSE [err |-> onfail.err, disp |-> onfail.disp, log |-> <<e>>]

\* a check that keeps the handle as it is when only positions or cell changed
_check_api_calculator_SkipsUpdate(d, a, system_changes, fails) ==
  LET _reset == system_changes \ {"positions", "cell"}
  IN [err |-> "None",
      disp |-> IF _reset # {} THEN NoHandle ELSE d,
      log |-> <<>>]

\* a check that drops the handle on every change instead of updating it
_check_api_calculator_NeverUpdates(d, a, system_changes, fails) ==
  [err |-> "None",
   disp |-> IF system_changes # {} THEN NoHandle ELSE d,
   log |-> <<>>]

\* a check that updates in place whatever changed
_check_api_calculator_AlwaysUpdates(d, a, system_changes, fails) ==
  IF system_changes # {} /\ d # NoHandle
  THEN UpdateInPlace(d, a, fails, [err |-> "None", disp |-> NoHandle])
  ELSE [err |-> "None", disp |-> d, log |-> <<>>]

\* a check that lets the RuntimeError of a failed update escape
_check_api_calculator_Propagates(d, a, system_changes, fails) ==
  LET _reset == system_changes \ {"positions", "cell"}
  IN IF _reset # {}
     THEN [err |-> "None", disp |-> NoHandle, log |-> <<>>]
     ELSE IF system_changes # {} /\ d # NoHandle
          THEN UpdateInPlace(d, a, fails, [err |-> "RuntimeError", disp |-> d])
          ELSE [err |-> "None", disp |-> d, log |-> <<>>]

_check_api_calculator(d, a, system_changes, fails) ==
  LET _reset == system_changes \ {"positions", "cell"}
  IN IF _reset # {}
     THEN [err |-> "None", disp |-> NoHandle, log |-> <<>>]
     ELSE IF system_changes # {} /\ d # NoHandle
          THEN UpdateInPlace(d, a, fails, [err |-> "None", disp |-> NoHandle])
          ELSE [err |-> "None", disp |-> d, log |-> <<>>]

\* a constructor wrapper that passes positions and cell as the atoms hold
\* them
_create_api_calculator_Unconverted(a, id, fails) ==
  LET ok == "construct" \notin fails
      h == DispersionModel(id, a.numbers, a.positions, a.cell, a.pbc)
      e == Event("construct", ok, IF ok THEN id ELSE NoId,
                 [numbers |-> h.numbers, positions |-> h.positions,
                  cell |-> h.cell, periodic |-> h.periodic])
  IN [err |-> IF ok THEN "None" ELSE "InputError",
      disp |-> IF ok THEN <<h>> ELSE NoHandle,
      log |-> <<e>>]

\* a constructor wrapper that lets the engine's RuntimeError escape
_create_api_calculator_Uncaught(a, id, fails) ==
  LET ok == "construct" \notin fails
      h == DispersionModel(id, a.numbers, DivBohr(a.positions),
                           DivBohr(a.cell), a.pbc)
      e == Event("construct", ok, IF ok THEN id ELSE NoId,
                 [numbers |-> h.numbers, positions |-> h.positions,
                  cell |-> h.cell, periodic |-> h.periodic])
  IN [err |-> IF ok THEN "None" ELSE "RuntimeError",
      disp |-> IF ok THEN <<h>> ELSE NoHandle,
      log |-> <<e>>]

_create_api_calculator(a, id, fails) ==
  LET _cell == a.cell
      _periodic == a.pbc
      ok == "construct" \notin fails
      h == DispersionModel(id, a.numbers, DivBohr(a.positions),
                           DivBohr(_cell), _periodic)
      e == Event("construct", ok, IF ok THEN id ELSE NoId,
                 [numbers |-> h.numbers, positions |-> h.positions,
                  cell |-> h.cell, periodic |-> h.periodic])
  IN [err |-> IF ok THEN "None" ELSE "InputError",
      disp |-> IF ok THEN <<h>> ELSE NoHandle,
      log |-> <<e>>]

\* the family constructor called with kwargs (line 248)
CallFamily(p, kwargs, fails) ==
  LET known == p.damping \in DOMAIN _damping_param
      ok == "dpar" \notin fails
      family == IF known THEN _damping_param[p.damping] ELSE None
      e == Event("dpar", ok, NoId, [family |-> family, kwargs |-> kwargs])
  IN [err |-> IF ~known THEN "KeyError"
              ELSE IF ok THEN "None" ELSE "InputError",
      dpar |-> DampingParam(family, kwargs),
      log |-> IF known THEN <<e>> ELSE <<>>]

\* a factory that builds from the method alone, whatever params_tweaks holds
_create_damping_param_IgnoresTweaks(p, fails) ==
  CallFamily(p, [k \in {"method"} |-> p.method], fails)

\* a factory in which a method that is set wins over params_tweaks
_create_damping_param_MethodFirst(p, fails) ==
  CallFamily(p, IF p.method # None THEN [k \in {"method"} |-> p.method]
                                  ELSE p.params_tweaks, fails)

_create_damping_param(p, fails) ==
  LET params_tweaks == IF DOMAIN p.params_tweaks # {}
                       THEN p.params_tweaks
                       ELSE [k \in {"method"} |-> p.method]
  IN CallFamily(p, params_tweaks, fails)

\* results whose stress lists the off-diagonal entries as xy, xz, yz
StoreResults_OtherOrder(res, a, _res) ==
  LET energy == _res.energy * Hartree
      forces == ((-_res.gradient) * Hartree * 1000) \div Bohr
      _stress == [i \in 1..9 |-> (_res.virial[i] * Hartree) \div get_volume(a)]
      flat == <<0, 4, 8, 1, 2, 5>>
      stress == [k \in 1..6 |-> _stress[flat[k] + 1]]
      keys == DOMAIN res \cup {"energy", "free_energy", "forces"}
                \cup (IF any(a.pbc) THEN {"stress"} ELSE {})
  IN [k \in keys |->
        CASE k = "energy" -> energy
          [] k = "free_energy" -> energy
          [] k = "forces" -> forces
          [] k = "stress" -> IF any(a.pbc) THEN stress ELSE res[k]
          [] OTHER -> res[k]]

\* lines 279-286: the entries calculate writes after a successful evaluation
StoreResults(res, a, _res) ==
  LET energy == _res.energy * Hartree
      forces == ((-_res.gradient) * Hartree * 1000) \div Bohr
      _stress == [i \in 1..9 |-> (_res.virial[i] * Hartree) \div get_volume(a)]
      flat == <<0, 4, 8, 5, 2, 1>>
      stress == [k \in 1..6 |-> _stress[flat[k] + 1]]
      keys == DOMAIN res \cup {"energy", "free_energy", "forces"}
                \cup (IF any(a.pbc) THEN {"stress"} ELSE {})
  IN [k \in keys |->
        CASE k = "energy" -> energy
          [] k = "free_energy" -> energy
          [] k = "forces" -> forces
          [] k = "stress" -> IF any(a.pbc) THEN stress ELSE res[k]
          [] OTHER -> res[k]]

\* an evaluation that is tried a second time when it fails
Evaluate_Retries(d, _dpar, fails) ==
  LET ok == "eval" \notin fails
      e == Event("eval", ok, d[1].id, [param |-> _dpar, grad |-> TRUE])
      again == Event("eval", TRUE, d[1].id, [param |-> _dpar, grad |-> TRUE])
  IN [err |-> "None",
      res |-> get_dispersion(d[1], _dpar, TRUE),
      log |-> IF ok THEN <<e>> ELSE <<e, again>>]

\* lines 274-277: the evaluation on the handle d
Evaluate(d, _dpar, fails) ==
  LET ok == "eval" \notin fails
      e == Event("eval", ok, d[1].id, [param |-> _dpar, grad |-> TRUE])
  IN [err |-> IF ok THEN "None" ELSE "CalculationFailed",
      res |-> get_dispersion(d[1], _dpar, TRUE),
      log |-> <<e>>]

\* a raising calculate that has already written an energy
Raised_WritesEnergy(res, a, d, log, err) ==
  [atoms |-> <<a>>,
   results |-> [k \in DOMAIN res \cup {"energy"} |->
                  IF k = "energy" THEN 0 ELSE res[k]],
   disp |-> d, log |-> log, err |-> err]

\* what calculate leaves when it raises err after the engine calls of log
Raised(res, a, d, log, err) ==
  [atoms |-> <<a>>, results |-> res, disp |-> d, log |-> log, err |-> err]

calculate(p, res, d, a, system_changes, fails) ==
  LET chk == _check_api_calculator(d, a, system_changes, fails)
      cre == IF chk.disp = NoHandle
             THEN _create_api_calculator(a, NewId, fails)
             ELSE [err |-> "None", disp |-> chk.disp, log |-> <<>>]
      log1 == chk.log \o cre.log
      _dpar == _create_damping_param(p, fails)
      log2 == log1 \o _dpar.log
      _res == Evaluate(cre.disp, _dpar.dpar, fails)
      log3 == log2 \o _res.log
  IN IF chk.err # "None" THEN Raised(res, a, chk.disp, chk.log, chk.err)
     ELSE IF cre.err # "None" THEN Raised(res, a, cre.disp, log1, cre.err)
     ELSE IF _dpar.err # "None" THEN Raised(res, a, cre.disp, log2, _dpar.err)
     ELSE IF _res.err # "None" THEN Raised(res, a, cre.disp, log3, _res.err)
     ELSE [atoms |-> <<a>>, results |-> StoreResults(res, a, _res.res),
           disp |-> cre.disp, log |-> log3, err |-> "None"]

\* lines 263-265: the properties handed to the framework's calculate, which
\* stores the atoms and reads the properties no further
RequestedProperties(properties) ==
  IF properties = NoList \/ properties[1] = <<>>
  THEN <<"energy">>
  ELSE properties[1]

\* a calculate that stores only the properties it was asked for
CalculateCall_StoresRequested(p, res, d, a, properties, system_changes, fails) ==
  LET _properties == RequestedProperties(properties)
      r == calculate(p, res, d, a, system_changes, fails)
      asked == {_properties[i] : i \in DOMAIN _properties}
      keys == IF r.err = "None"
              THEN DOMAIN res \cup (asked \cap DOMAIN r.results)
              ELSE DOMAIN r.results
  IN [atoms |-> r.atoms, results |-> [k \in keys |-> r.results[k]],
      disp |-> r.disp, log |-> r.log, err |-> r.err,
      properties |-> _properties]

\* lines 255-286: calculate with its properties argument
CalculateCall(p, res, d, a, properties, system_changes, fails) ==
  LET _properties == RequestedProperties(properties)
      r == calculate(p, res, d, a, system_changes, fails)
  IN [atoms |-> r.atoms, results |-> r.results, disp |-> r.disp,
      log |-> r.log, err |-> r.err, properties |-> _properties]

----------------------------------------------------------------------------
(* The state machine: a calculator on which set, reset and calculate are   *)
(* called in any order.  last records the last call: the operation, its    *)
(* change list, the handle cached when it began and the one cached when it *)
(* ended, the engine calls it made, the exception it raised and the        *)
(* parameters it changed; for calculate also the properties it was asked   *)
(* for, and for every call the keys results held when it began.            *)


Observed(op, system_changes, before, after, log, err, changed) ==
  [op |-> op, system_changes |-> system_changes, before |-> before,
   after |-> after, log |-> log, err |-> err, changed |-> changed,
   properties |-> NoList, had |-> DOMAIN results]

SetInputs ==
  {[k \in {"method"} |-> v] : v \in Methods}
    \cup {[k \in {"damping"} |-> v] : v \in Dampings}
    \cup {[k \in {"params_tweaks"} |-> v] : v \in Tweaks}
    \cup {[k \in {"cache_api"} |-> v] : v \in BOOLEAN}

\* the keyword arguments of the constructor: none, one parameter, or the
\* method and damping of the module's example
InitInputs ==
  {EmptyDict, [method |-> "pbe", damping |-> "d3bj"]} \cup SetInputs

\* DFTD3(**kwargs): the default parameters, then set(**kwargs)
Init ==
  /\ \E kwargs \in InitInputs :
        parameters = set(default_parameters, NoHandle, NoAtoms, EmptyDict,
                         kwargs).parameters
  /\ atoms = NoAtoms
  /\ results = EmptyDict
  /\ _disp = NoHandle
  /\ last = Observed("init", {}, NoId, NoId, <<>>, "None", {})
  /\ previous = NoAtoms

CalculateRequesting(a, properties, system_changes, fails) ==
  /\ \E r \in {CalculateCall(parameters, results, _disp, a, properties,
                              system_changes, fails)} :
        /\ atoms' = r.atoms
        /\ results' = r.results
        /\ _disp' = Cached(r.disp)
        /\ last' = [Observed("calculate", system_changes, IdOf(_disp),
                             IdOf(r.disp), r.log, r.err, {})
                      EXCEPT !.properties = properties]
  /\ previous' = <<a>>
  /\ UNCHANGED parameters

\* calculate(atoms, system_changes=...), the properties left out
CalculateWith(a, system_changes, fails) ==
  CalculateRequesting(a, NoList, system_changes, fails)

\* calculate called with any change list
Calculate ==
  \E a \in AtomsSet, system_changes \in ChangeSets, fails \in FailSets :
    CalculateWith(a, system_changes, fails)

\* the attributes in which a differs from the atoms the calculator holds, as
\* the framework's check_state lists them: all of them when it holds none
RequiredChanges(a) ==
  IF atoms = NoAtoms
  THEN all_changes
  ELSE {k \in {"positions", "numbers", "cell", "pbc"} : atoms[1][k] # a[k]}

\* calculate called by a caller that lists every attribute that changed
CalculateListed ==
  \E a \in AtomsSet, system_changes \in ChangeSets, fails \in FailSets :
    /\ RequiredChanges(a) \subseteq system_changes
    /\ CalculateWith(a, system_changes, fails)

\* set(**kwargs)
SetWith(kwargs) ==
  LET r == set(parameters, _disp, atoms, results, kwargs)
  IN /\ parameters' = r.parameters
     /\ atoms' = r.atoms
     /\ results' = r.results
     /\ _disp' = r.disp
     /\ last' = Observed("set", {}, IdOf(_disp), IdOf(r.disp), <<>>, "None",
                         r.changed)
     /\ UNCHANGED previous

Set == \E kwargs \in SetInputs : SetWith(kwargs)

Reset ==
  LET r == reset(parameters, _disp)
  IN /\ atoms' = r.atoms
     /\ results' = r.results
     /\ _disp' = r.disp
     /\ last' = Observed("reset", {}, IdOf(_disp), IdOf(r.disp), <<>>, "None", {})
     /\ UNCHANGED <<parameters, previous>>

Next == Calculate \/ Set \/ Reset

Spec == Init /\ [][Next]_vars

\* the calculator under callers that list every change
NextListed == CalculateListed \/ Set \/ Reset

SpecListed == Init /\ [][NextListed]_vars

\* the attributes in which a differs from the atoms of the previous calculate
\* call (none when there was no such call)
ChangedSincePrevious(a) ==
  IF previous = NoAtoms
  THEN {}
  ELSE {k \in {"positions", "numbers", "cell", "pbc"} : previous[1][k] # a[k]}

\* calculate called with a change list that holds every attribute that
\* differs from the atoms of the previous calculate call
CalculateTracked ==
  \E a \in AtomsSet, system_changes \in ChangeSets, fails \in FailSets :
    /\ ChangedSincePrevious(a) \subseteq system_changes
    /\ CalculateWith(a, system_changes, fails)

NextTracked == CalculateTracked \/ Set \/ Reset

SpecTracked == Init /\ [][NextTracked]_vars

\* calculate called with any properties argument, as the framework's
\* get_property calls it: system_changes is the list check_state made
CalculateRequested ==
  \E a \in AtomsSet, properties \in PropertyLists, fails \in FailSets :
    CalculateRequesting(a, properties, RequiredChanges(a), fails)

NextRequested == CalculateRequested \/ Set \/ Reset

SpecRequested == Init /\ [][NextRequested]_vars

----------------------------------------------------------------------------
(* Reading the record of the last call *)

Called == last.op = "calculate"

Succeeded == Called /\ last.err = "None"

\* the positions in the log of the calls of one kind
At(ev) == {i \in DOMAIN last.log : last.log[i].ev = ev}

Invoked(ev) == At(ev) # {}

Ran(ev) == \E i \in At(ev) : last.log[i].ok

Failed(ev) == \E i \in At(ev) : ~last.log[i].ok

KnownDamping == parameters.damping \in DOMAIN _damping_param

OnlyGeometryChanged ==
  last.system_changes # {} /\ last.system_changes \subseteq {"positions", "cell"}

\* the geometry the engine is handed for the calculator's current atoms
PositionsOfAtoms == DivBohr(atoms[1].positions)
CellOfAtoms == DivBohr(atoms[1].cell)

ConstructedFromAtoms(i) ==
  /\ last.log[i].ev = "construct"
  /\ last.log[i].args = [numbers |-> atoms[1].numbers,
                         positions |-> PositionsOfAtoms,
                         cell |-> CellOfAtoms,
                         periodic |-> atoms[1].pbc]

----------------------------------------------------------------------------
(* Claims *)

\* C1: for every damping value that is not a known family name (None
\* included) a calculate call ends with InputError raised to the caller and
\* with no other kind of error.
C1_UnknownDampingRaisesInputError ==
  (Called /\ ~KnownDamping) => last.err = "InputError"

C3_RebuildOnEveryCalculate ==
  (Called /\ ~parameters.cache_api) =>
     /\ Invoked("construct")
     /\ \A i \in At("eval") : last.log[i].id = NewId

\* C4 as stated: with cache_api true and a cached handle, a calculate call
\* whose system_changes is a non-empty subset of {positions, cell} updates
\* the handle, does not invoke the constructor and evaluates the handle
\* that was cached before the call.
C4_GeometryChangeReusesHandle ==
  (Called /\ parameters.cache_api /\ last.before = CachedId /\ OnlyGeometryChanged) =>
     /\ Invoked("update")
     /\ ~Invoked("construct")
     /\ \A i \in At("eval") : last.log[i].id = CachedId

\* C4 amended: in that case the call first calls update(positions, cell) on
\* the cached handle with the geometry of the current atoms; when the update
\* succeeds the constructor is not invoked and the handle evaluated is the
\* one cached before the call; when the update raises RuntimeError the
\* handle is dropped and a new model is constructed in its place.
C4_GeometryChangeUpdatesHandle ==
  (Called /\ parameters.cache_api /\ last.before = CachedId /\ OnlyGeometryChanged) =>
     /\ Len(last.log) >= 1
     /\ last.log[1].ev = "update"
     /\ last.log[1].id = CachedId
     /\ last.log[1].args = [positions |-> PositionsOfAtoms, cell |-> CellOfAtoms]
     /\ At("update") = {1}
     /\ Ran("update") =>
          /\ ~Invoked("construct")
          /\ last.after = CachedId
          /\ \A i \in At("eval") : last.log[i].id = CachedId
     /\ Failed("update") =>
          /\ Len(last.log) >= 2
          /\ last.log[2].ev = "construct"
          /\ last.after # CachedId
          /\ \A i \in At("eval") : last.log[i].id = NewId

C4_Witness ==
  /\ Succeeded
  /\ parameters.cache_api
  /\ last.before = CachedId
  /\ OnlyGeometryChanged
  /\ Ran("update")
  /\ \E i \in At("eval") : last.log[i].id = CachedId

\* C5: whenever system_changes holds an entry other than positions and cell,
\* the cached handle is dropped without an update call and a new model is
\* constructed from the current atoms before any evaluation, whatever
\* cache_api is and whether or not positions or cell changed too.
C5_OtherChangeRebuilds ==
  (Called /\ last.system_changes \ {"positions", "cell"} # {}) =>
     /\ ~Invoked("update")
     /\ Len(last.log) >= 1
     /\ ConstructedFromAtoms(1)
     /\ At("construct") = {1}
     /\ last.after # CachedId
     /\ \A i \in At("eval") : i > 1 /\ last.log[1].ok /\ last.log[i].id = NewId

C5_Witness ==
  /\ Succeeded
  /\ parameters.cache_api
  /\ last.before = CachedId
  /\ last.system_changes = all_changes
  /\ \E i \in At("eval") : last.log[i].id = NewId

\* C6: after any successful calculate call, results holds a stress entry if
\* and only if the atoms of that call are periodic in at least one direction.
C6_StressIffPeriodic ==
  Succeeded => ("stress" \in DOMAIN results <=> any(atoms[1].pbc))

C8_MethodAndS9ReachConstructor ==
  (Called /\ parameters.method # None /\ DOMAIN parameters.params_tweaks = {"s9"}) =>
    \A i \in At("dpar") :
       /\ "method" \in DOMAIN last.log[i].args.kwargs
       /\ "s9" \in DOMAIN last.log[i].args.kwargs
       /\ last.log[i].args.kwargs["method"] = parameters.method
       /\ last.log[i].args.kwargs["s9"] = parameters.params_tweaks["s9"]

\* C9: a failed update never propagates out of calculate: the cached handle
\* is dropped and a rebuild from the current atoms is attempted in its place,
\* so the caller sees only the errors of the rebuild, of the damping
\* parameter construction or of the evaluation.
C9_UpdateFailureFallsBackToRebuild ==
  (Called /\ Failed("update")) =>
     /\ Len(last.log) >= 2
     /\ ~last.log[1].ok
     /\ ConstructedFromAtoms(2)
     /\ last.after # CachedId
     /\ last.err # "RuntimeError"
     /\ last.err # "None" =>
          \/ ~KnownDamping
          \/ /\ ~last.log[Len(last.log)].ok
             /\ last.log[Len(last.log)].ev \in {"construct", "dpar", "eval"}

C9_Witness ==
  /\ Succeeded
  /\ Failed("update")
  /\ Ran("construct")
  /\ Ran("eval")

\* C10: when the evaluation fails, calculate raises CalculationFailed and
\* does not retry: get_dispersion is invoked at most once per call, always
\* with gradients, and no construction or evaluation follows the failure.
C10_EvaluationFailureNotRetried ==
  Called =>
     /\ Cardinality(At("eval")) <= 1
     /\ \A i \in At("eval") :
          /\ last.log[i].args.grad
          /\ i = Len(last.log)
          /\ ~last.log[i].ok => last.err = "CalculationFailed"
     /\ last.err = "CalculationFailed" => Failed("eval")

C10_Witness ==
  /\ Called
  /\ Failed("eval")
  /\ last.err = "CalculationFailed"

\* C11: when the engine's constructor fails, calculate raises InputError,
\* makes no further call to the engine (no evaluation), and leaves no handle;
\* and every calculate call that begins without a handle calls the
\* constructor first, so the call after a failed construction constructs
\* again.
C11_ConstructionFailureRaisesInputError ==
  /\ (Called /\ Failed("construct")) =>
        /\ last.err = "InputError"
        /\ ~Invoked("eval")
        /\ last.log[Len(last.log)].ev = "construct"
        /\ _disp = NoHandle
  /\ (Called /\ last.before = NoId) =>
        /\ last.log # <<>>
        /\ last.log[1].ev = "construct"

\* a calculate call in which the constructor failed
C11_Witness ==
  /\ Called
  /\ Failed("construct")
  /\ last.err = "InputError"
  /\ _disp = NoHandle

\* C12: after a set call that changed at least one parameter, results holds
\* no entry: none of energy, free_energy, forces, stress of an earlier
\* calculation is left.
C12_ChangingSetClearsResults ==
  (last.op = "set" /\ last.changed # {}) =>
    /\ DOMAIN results = {}
    /\ atoms = NoAtoms

\* a set call that changed a parameter while results held a calculation
C12_Witness ==
  /\ last.op = "set"
  /\ last.changed # {}
  /\ {"energy", "free_energy", "forces"} \subseteq last.had
  /\ DOMAIN results = {}

\* C13: after a calculate call that returned normally, results holds energy,
\* free_energy and forces, whatever the properties argument was (missing,
\* empty, or a list), and free_energy equals energy.
C13_EnergyAndForcesAlwaysStored ==
  Succeeded =>
    /\ {"energy", "free_energy", "forces"} \subseteq DOMAIN results
    /\ results["free_energy"] = results["energy"]

\* a successful calculate called with an empty properties list on a
\* calculator whose results were empty
C13_Witness ==
  /\ Succeeded
  /\ last.properties = << <<>> >>
  /\ last.had = {}
  /\ {"energy", "free_energy", "forces"} \subseteq DOMAIN results

\* the virial the engine returned to the last calculate call
VirialOfLastCall ==
  LET i == CHOOSE j \in At("eval") : last.log[j].ok
  IN get_dispersion(_disp[1], last.log[i].args.param, TRUE).virial

\* entry (row, col) of the 3x3 row-major virial, times Hartree, by the volume
ScaledVirial(row, col) ==
  (VirialOfLastCall[3 * (row - 1) + col] * Hartree) \div get_volume(atoms[1])

\* C14: after a successful calculate on a periodic structure, stress has six
\* components, the virial entries xx, yy, zz, yz, xz, xy in that order (x, y,
\* z being rows and columns 1, 2, 3 of the row-major virial), each times
\* Hartree and divided by the cell volume.
C14_StressIsVoigtOrderedScaledVirial ==
  (Succeeded /\ any(atoms[1].pbc)) =>
    /\ "stress" \in DOMAIN results
    /\ results["stress"] = <<ScaledVirial(1, 1), ScaledVirial(2, 2),
                             ScaledVirial(3, 3), ScaledVirial(2, 3),
                             ScaledVirial(1, 3), ScaledVirial(1, 2)>>

\* a successful calculate on the periodic structure, whose six stress
\* components differ from each other
C14_Witness ==
  /\ Succeeded
  /\ atoms = <<Crystal>>
  /\ "stress" \in DOMAIN results
  /\ \A j, k \in 1..6 : j # k => results["stress"][j] # results["stress"][k]

\* y is the length x (in 1/1000 of the framework's unit) in units of Bohr
\* (in 1/1000 of the framework's unit), rounded down
InBohr(x, y) == y * Bohr <= x * 1000 /\ x * 1000 < (y + 1) * Bohr

\* C15: in every calculate call, each call of the engine's constructor and
\* each call of its update receives the positions and the cell of the atoms
\* of that call divided by Bohr: the same conversion on both paths, and never
\* the unconverted values.
C15_GeometryCrossesInBohr ==
  Called =>
    \A i \in At("update") \cup At("construct") :
      /\ InBohr(atoms[1].positions, last.log[i].args.positions)
      /\ InBohr(atoms[1].cell, last.log[i].args.cell)

\* a calculate call on the periodic structure that took both paths: the
\* update failed and the constructor was called
C15_Witness ==
  /\ Called
  /\ atoms = <<Crystal>>
  /\ Invoked("update")
  /\ Ran("construct")
  /\ \A i \in At("update") \cup At("construct") :
        /\ last.log[i].args.positions # atoms[1].positions
        /\ last.log[i].args.cell # atoms[1].cell

\* the damping parameter that the values in p describe
DampingParamOf(p) ==
  DampingParam(_damping_param[p.damping],
               IF DOMAIN p.params_tweaks # {}
               THEN p.params_tweaks
               ELSE [k \in {"method"} |-> p.method])

\* in the call recorded in l, every evaluation was handed a damping parameter
\* that the same call built, exactly once, from the values in p
BuiltInThisCall(l, p) ==
  \A i \in {j \in DOMAIN l.log : l.log[j].ev = "eval"} :
    LET built == {j \in 1..(i - 1) : l.log[j].ev = "dpar"}
    IN /\ Cardinality(built) = 1
       /\ \A j \in built :
            /\ l.log[j].ok
            /\ DampingParam(l.log[j].args.family, l.log[j].args.kwargs)
                 = DampingParamOf(p)
       /\ l.log[i].args.param = DampingParamOf(p)

\* C16: a calculate call that evaluates builds the damping parameter itself,
\* from the damping, params_tweaks and method the calculator holds at that
\* call, and evaluates with it (so after a set, with the new values); and a
\* set call after which cache_api is true leaves the handle as it was.
C16_DampingParamBuiltPerCall ==
  [][ /\ last'.op = "calculate" => BuiltInThisCall(last', parameters')
      /\ (last'.op = "set" /\ parameters'.cache_api) => _disp' = _disp
    ]_vars

\* a successful calculate that reused the cached handle, on a calculator
\* whose results had been cleared, and built its damping parameter from
\* params_tweaks
C16_Witness ==
  /\ Succeeded
  /\ last.before = CachedId
  /\ ~Invoked("construct")
  /\ last.had = {}
  /\ parameters.cache_api
  /\ DOMAIN parameters.params_tweaks # {}
  /\ BuiltInThisCall(last, parameters)

\* C17: when every calculate call lists each attribute in which its atoms
\* differ from the atoms of the previous calculate call, a calculate call that
\* calls get_dispersion calls it on a handle holding the numbers, the
\* positions, the cell and the periodicity of the atoms of that call,
\* whatever set, reset and failed or successful calculate calls came before.
C17_EvaluatedHandleMatchesAtoms ==
  (Called /\ Invoked("eval")) =>
    /\ _disp # NoHandle
    /\ \A i \in At("eval") : last.log[i].id = last.after
    /\ _disp[1].numbers = atoms[1].numbers
    /\ _disp[1].positions = PositionsOfAtoms
    /\ _disp[1].cell = CellOfAtoms
    /\ _disp[1].periodic = atoms[1].pbc

\* a calculate call that found a cached handle and no results, moved the
\* handle to new positions with update and evaluated it
C17_Witness ==
  /\ Called
  /\ last.before = CachedId
  /\ last.had = {}
  /\ Ran("update")
  /\ Invoked("eval")
  /\ atoms = <<MoleculeMoved>>
  /\ _disp[1].positions = PositionsOfAtoms

\* C18: a calculate call that raises, at whatever step, leaves results
\* exactly as they were when it was called: it writes none of energy,
\* free_energy, forces, stress.
C18_RaisingCalculateKeepsResults ==
  [][ (last'.op = "calculate" /\ last'.err # "None") => results' = results
    ]_vars

\* a calculate call whose evaluation failed on a calculator that held the
\* results of an earlier calculation
C18_Witness ==
  /\ Called
  /\ Failed("eval")
  /\ last.err = "CalculationFailed"
  /\ {"energy", "free_energy", "forces"} \subseteq last.had
  /\ DOMAIN results = last.had

====
